---- MODULE Spec2Model ----
(***************************************************************************)
(* Model of autotrader_bot.py: the new-listing detection, notification and *)
(* archiving pipeline.  One run of main() is a sequence of steps (pc); the *)
(* durable state (seen_listings.json, archives/<id>/) survives from one    *)
(* run to the next.                                                        *)
(***************************************************************************)
EXTENDS Integers, Sequences, FiniteSets, TLC

\* ------------------------------------------------------------------ bounds
MaxRuns == 2          \* number of invocations of main() explored
MaxAnchors == 3       \* anchors of a results page, when fetch_listings is explored
MaxPageImgs == 16     \* absolute images of a listing page, when archive_listing is explored

\* ------------------------------------------------------- program constants
IMG_CAP    == 15      \* img_urls[:15]
MIN_DIGITS == 6       \* [0-9]{6,}

\* ---------------------------------------------------------------- strings
\* A string is a sequence of one-character strings.
Digits == {"0","1","2","3","4","5","6","7","8","9"}
Delims == {"_", "/", "-"}

\* Code points of the characters that occur in the model (Python compares
\* str values by code point).
CharCode ==
  [c \in Digits \cup {"_", "/", "-", ":", "a", "b", "h", "p", "s", "t", "x", "?"} |->
     CASE c = "-" -> 45 [] c = "/" -> 47
       [] c = "0" -> 48 [] c = "1" -> 49 [] c = "2" -> 50 [] c = "3" -> 51
       [] c = "4" -> 52 [] c = "5" -> 53 [] c = "6" -> 54 [] c = "7" -> 55
       [] c = "8" -> 56 [] c = "9" -> 57 [] c = ":" -> 58 [] c = "?" -> 63
       [] c = "_" -> 95 [] c = "a" -> 97 [] c = "b" -> 98 [] c = "h" -> 104
       [] c = "p" -> 112 [] c = "s" -> 115 [] c = "t" -> 116 [] c = "x" -> 120]

Min(a, b) == IF a <= b THEN a ELSE b

\* Python's str "<": first differing code point decides, a proper prefix is less.
RECURSIVE StrLess(_, _)
StrLess(a, b) ==
  IF b = <<>> THEN FALSE
  ELSE IF a = <<>> THEN TRUE
  ELSE IF Head(a) = Head(b) THEN StrLess(Tail(a), Tail(b))
  ELSE CharCode[Head(a)] < CharCode[Head(b)]

StartsWith(s, pre) ==
  /\ Len(s) >= Len(pre)
  /\ SubSeq(s, 1, Len(pre)) = pre

Contains(s, sub) ==
  \E i \in 1..Len(s) : i + Len(sub) - 1 <= Len(s) /\ SubSeq(s, i, i + Len(sub) - 1) = sub

\* sorted(seen): ascending list of the elements of a set of strings
SortedLess_Wrong(a, b) == StrLess(b, a)
SortedLess(a, b) == StrLess(a, b)

RECURSIVE sorted(_)
sorted(S) ==
  IF S = {} THEN <<>>
  ELSE LET m == CHOOSE x \in S : \A y \in S \ {x} : SortedLess(x, y)
       IN <<m>> \o sorted(S \ {m})

Range(q) == {q[i] : i \in 1..Len(q)}

\* ------------------------------------------------------------------ config
SEARCH_URL == <<"h","t","t","p",":","/","/","s","/","s">>
HTTP       == <<"h","t","t","p">>
CARD_HREF  == <<"/","a","/">>
DEFAULT_TITLE == "AutoTrader Listing"

\* requests.compat.urljoin(SEARCH_URL, href) for the three href shapes:
\* absolute, root-relative, path-relative.
Origin == SubSeq(SEARCH_URL, 1, 8)
BaseDir == SubSeq(SEARCH_URL, 1, 9)
urljoin(href) ==
  IF StartsWith(href, HTTP) THEN href
  ELSE IF StartsWith(href, <<"/">>) THEN Origin \o href
  ELSE BaseDir \o href

\* Length of the run of digits of s that starts at position i.
RECURSIVE DigitRun(_, _)
DigitRun(s, i) ==
  IF i <= Len(s) /\ s[i] \in Digits THEN 1 + DigitRun(s, i + 1) ELSE 0

\* ID_REGEX.search(url): positions where [_/-]([0-9]{6,}) matches.
MatchAt(url, p) == url[p] \in Delims /\ DigitRun(url, p + 1) >= MIN_DIGITS
HasId(url) == \E p \in 1..Len(url) : MatchAt(url, p)
\* m.group(1) of the leftmost match; the quantifier is greedy.
ExtractId(url) ==
  LET p == CHOOSE q \in 1..Len(url) :
              MatchAt(url, q) /\ \A r \in 1..(q - 1) : ~MatchAt(url, r)
  IN SubSeq(url, p + 1, p + DigitRun(url, p + 1))

RECURSIVE CollectFrom_LastWins(_, _)
CollectFrom_LastWins(anchors, unique) ==
  IF anchors = <<>> THEN unique
  ELSE LET a   == Head(anchors)
           url == urljoin(a.href)
           rec == [id |-> ExtractId(url), url |-> url,
                   title |-> IF a.text = "" THEN DEFAULT_TITLE ELSE a.text]
       IN IF ~Contains(a.href, CARD_HREF) THEN CollectFrom_LastWins(Tail(anchors), unique)
          ELSE IF ~HasId(url) THEN CollectFrom_LastWins(Tail(anchors), unique)
          ELSE IF \E i \in 1..Len(unique) : unique[i].id = rec.id
               THEN CollectFrom_LastWins(Tail(anchors),
                      [i \in 1..Len(unique) |-> IF unique[i].id = rec.id THEN rec ELSE unique[i]])
          ELSE CollectFrom_LastWins(Tail(anchors), Append(unique, rec))

RECURSIVE CollectFrom_NoDedupe(_, _)
CollectFrom_NoDedupe(anchors, unique) ==
  IF anchors = <<>> THEN unique
  ELSE LET a   == Head(anchors)
           url == urljoin(a.href)
       IN IF ~Contains(a.href, CARD_HREF) THEN CollectFrom_NoDedupe(Tail(anchors), unique)
          ELSE IF ~HasId(url) THEN CollectFrom_NoDedupe(Tail(anchors), unique)
          ELSE CollectFrom_NoDedupe(Tail(anchors),
                 Append(unique, [id |-> ExtractId(url), url |-> url,
                                 title |-> IF a.text = "" THEN DEFAULT_TITLE ELSE a.text]))

\* fetch_listings(): the loop over soup.select(CARD_HREF_CSS); `unique` is
\* an insertion-ordered dict, kept here as the list of its values.
RECURSIVE CollectFrom(_, _)
CollectFrom(anchors, unique) ==
  IF anchors = <<>> THEN unique
  ELSE LET a   == Head(anchors)
           url == urljoin(a.href)
       IN IF ~Contains(a.href, CARD_HREF) THEN CollectFrom(Tail(anchors), unique)
          ELSE IF ~HasId(url) THEN CollectFrom(Tail(anchors), unique)
          ELSE IF \E i \in 1..Len(unique) : unique[i].id = ExtractId(url)
               THEN CollectFrom(Tail(anchors), unique)
          ELSE CollectFrom(Tail(anchors),
                 Append(unique, [id |-> ExtractId(url), url |-> url,
                                 title |-> IF a.text = "" THEN DEFAULT_TITLE ELSE a.text]))

fetch_listings(doc) == CollectFrom(doc, <<>>)

NewListings_NoFilter(coll, seenset) == coll
NewListings_ByUrl(coll, seenset) == SelectSeq(coll, LAMBDA l : l.url \notin seenset)
\* [l for l in fetch_listings() if l["id"] not in seen]
NewListings(coll, seenset) == SelectSeq(coll, LAMBDA l : l.id \notin seenset)

\* ------------------------------------------------- inputs (the environment)
\* Anchors that a results page may carry.
aA     == [href |-> <<"/","a","/","1","1","1","1","1","1">>,     text |-> "A"]
aAdup  == [href |-> <<"/","a","/","1","1","1","1","1","1","?">>, text |-> "A again"]
aB     == [href |-> <<"/","a","/","x","-","2","2","2","2","2","2">>, text |-> ""]
aC     == [href |-> <<"/","a","/","x","_","1","0","0","0","0","0","0">>, text |-> "C"]
aShort == [href |-> <<"/","a","/","1","2","3","4","5">>,         text |-> "short"]
aOther == [href |-> <<"/","b","/","3","3","3","3","3","3">>,     text |-> "other"]

Anchors == {aA, aAdup, aB, aC, aShort, aOther}

Documents ==
  { <<aA, aB>>,
    <<aA, aAdup, aShort, aB>>,
    <<aOther, aC, aA>>,
    <<aShort, aOther>> }

idA == <<"1","1","1","1","1","1">>
idB == <<"2","2","2","2","2","2">>
idC == <<"1","0","0","0","0","0","0">>
Ids == {idA, idB, idC}
NoId == <<>>

\* Listing pages: the src attributes of the <img> elements, in document order.
absImg1 == <<"h","t","t","p",":","a">>
absImg2 == <<"h","t","t","p",":","b">>
relImg  == <<"/","x">>
Pages == { <<>>, <<absImg1, relImg, absImg2>> }

\* ------------------------------------------------------------------- state
VARIABLES
  cfg,            \* environment: which settings are present, which pages the site serves
  seenFile,       \* seen_listings.json: <<>> when absent, else <<list>>
  folders,        \* archives/: id -> [page, images, meta] for existing folders
  runNo,          \* invocations of main() so far (also the clock)
  pc,             \* position inside main(); "idle" between runs
  seen,           \* main's local `seen`
  new_listings,   \* main's local `new_listings`
  idx,            \* position of the for loop in new_listings
  img_urls,       \* archive_listing's local img_urls[:15]
  imgIdx,         \* archive_listing's loop counter i
  lastExit,       \* how the last run ended
  searchRes,      \* search result of the current / last run: <<>> or <<doc>>
  prevSearchRes,  \* search result of the run before
  collected,      \* fetch_listings() of the current / last run
  loaded,         \* load_seen() of the current / last run
  fileAtStart,    \* seenFile when the current / last run started
  foldersAtStart, \* folders when the current / last run started
  prevExit,       \* lastExit of the run before
  prevNew,        \* new_listings of the run before
  prevTx,         \* identifiers notified (email or SMS transport) in the run before
  trace,          \* effects of the current / last run, in order
  emailTx,        \* id -> email transport attempts over all runs
  smsTx,          \* id -> SMS transport attempts over all runs
  archiveMk       \* id -> archive folders created over all runs

vars == <<cfg, seenFile, folders, runNo, pc, seen, new_listings, idx, img_urls,
          imgIdx, lastExit, searchRes, prevSearchRes, collected, loaded,
          fileAtStart, foldersAtStart, prevExit, prevNew, prevTx, trace,
          emailTx, smsTx, archiveMk>>

disk    == <<seenFile, folders>>
locals  == <<seen, new_listings, idx, img_urls, imgIdx>>
runInfo == <<searchRes, prevSearchRes, collected, loaded, fileAtStart, foldersAtStart,
             prevExit, prevNew, prevTx>>
counts  == <<emailTx, smsTx, archiveMk>>

Ev(e, i, r, k) == [ev |-> e, id |-> i, res |-> r, n |-> k]
Log(e, i, r, k) == trace' = Append(trace, Ev(e, i, r, k))

lst == new_listings[idx]

\* load_seen()
load_seen(file) == IF file = <<>> THEN {} ELSE Range(file[1])

Init ==
  /\ cfg \in [search : BOOLEAN, email : BOOLEAN, sms : BOOLEAN, pages : {Pages}]
  /\ seenFile = <<>>
  /\ folders = <<>>
  /\ runNo = 0
  /\ pc = "idle"
  /\ seen = {}
  /\ new_listings = <<>>
  /\ idx = 0
  /\ img_urls = <<>>
  /\ imgIdx = 0
  /\ lastExit = "none"
  /\ searchRes = <<>>
  /\ prevSearchRes = <<>>
  /\ collected = <<>>
  /\ loaded = {}
  /\ fileAtStart = <<>>
  /\ foldersAtStart = <<>>
  /\ prevExit = "none"
  /\ prevNew = <<>>
  /\ prevTx = {}
  /\ trace = <<>>
  /\ emailTx = [i \in Ids |-> 0]
  /\ smsTx = [i \in Ids |-> 0]
  /\ archiveMk = [i \in Ids |-> 0]

\* The run ends (normally or by an uncaught exception): back to "idle".
EndRun(how) ==
  /\ pc' = "idle"
  /\ lastExit' = how

\* main(), lines 149-157: configuration check, load_seen, fetch_listings,
\* the new-listing filter and the early return.
Start ==
  /\ pc = "idle"
  /\ runNo < MaxRuns
  /\ runNo' = runNo + 1
  /\ trace' = <<>>
  /\ fileAtStart' = seenFile
  /\ foldersAtStart' = folders
  /\ prevSearchRes' = searchRes
  /\ prevExit' = lastExit
  /\ prevNew' = new_listings
  /\ prevTx' = {trace[k].id : k \in {j \in 1..Len(trace) :
                      trace[j].ev \in {"email", "sms"} /\ trace[j].res # "skipped"}}
  /\ img_urls' = <<>>
  /\ imgIdx' = 0
  /\ UNCHANGED <<cfg, disk, counts>>
  /\ IF ~cfg.search
     THEN \* sys.exit("Environment variable SEARCH_URL is missing.")
          /\ EndRun("fatal_config")
          /\ searchRes' = <<>> /\ collected' = <<>> /\ loaded' = {}
          /\ seen' = {} /\ new_listings' = <<>> /\ idx' = 0
     ELSE /\ loaded' = load_seen(seenFile)
          /\ seen' = load_seen(seenFile)
          /\ \E res \in {<<>>} \cup {<<d>> : d \in Documents} :
               /\ searchRes' = res
               /\ IF res = <<>>
                  THEN \* requests.get / raise_for_status raises
                       /\ EndRun("fatal_fetch")
                       /\ collected' = <<>> /\ new_listings' = <<>> /\ idx' = 0
                  ELSE /\ collected' = fetch_listings(res[1])
                       /\ new_listings' = NewListings(fetch_listings(res[1]), load_seen(seenFile))
                       /\ IF NewListings(fetch_listings(res[1]), load_seen(seenFile)) = <<>>
                          THEN EndRun("no_new") /\ idx' = 0
                          ELSE pc' = "email" /\ idx' = 1 /\ lastExit' = "running"

\* send_email (lines 82-95) as called from main's try/except (lines 161-164).
SendEmail_Uncaught ==
  /\ pc = "email"
  /\ UNCHANGED <<cfg, disk, runNo, locals, runInfo, smsTx, archiveMk>>
  /\ IF ~cfg.email
     THEN /\ Log("email", lst.id, "skipped", 0)
          /\ pc' = "sms"
          /\ UNCHANGED <<emailTx, lastExit>>
     ELSE /\ emailTx' = [emailTx EXCEPT ![lst.id] = @ + 1]
          /\ \/ Log("email", lst.id, "sent", 0) /\ pc' = "sms" /\ UNCHANGED lastExit
             \/ Log("email", lst.id, "failed", 0) /\ EndRun("abort_email")

SendEmail_NoCredCheck ==
  /\ pc = "email"
  /\ UNCHANGED <<cfg, disk, runNo, locals, runInfo, smsTx, archiveMk, lastExit>>
  /\ pc' = "sms"
  /\ emailTx' = [emailTx EXCEPT ![lst.id] = @ + 1]
  /\ \/ cfg.email /\ Log("email", lst.id, "sent", 0)
     \/ Log("email", lst.id, "failed", 0)

SendEmail ==
  /\ pc = "email"
  /\ UNCHANGED <<cfg, disk, runNo, locals, runInfo, smsTx, archiveMk, lastExit>>
  /\ pc' = "sms"
  /\ IF ~cfg.email
     THEN \* "Email skipped (missing Gmail creds)"
          /\ Log("email", lst.id, "skipped", 0)
          /\ UNCHANGED emailTx
     ELSE /\ emailTx' = [emailTx EXCEPT ![lst.id] = @ + 1]
          /\ \/ Log("email", lst.id, "sent", 0)
             \/ Log("email", lst.id, "failed", 0)   \* except Exception: print

SendSms_MarkEarly ==
  /\ pc = "sms"
  /\ UNCHANGED <<cfg, disk, runNo, new_listings, idx, img_urls, imgIdx, runInfo, emailTx,
                 archiveMk>>
  /\ seen' = seen \cup {lst.id}
  /\ IF ~cfg.sms
     THEN /\ Log("sms", lst.id, "skipped", 0)
          /\ pc' = "archive"
          /\ UNCHANGED <<smsTx, lastExit>>
     ELSE /\ smsTx' = [smsTx EXCEPT ![lst.id] = @ + 1]
          /\ \/ Log("sms", lst.id, "sent", 0) /\ pc' = "archive" /\ UNCHANGED lastExit
             \/ Log("sms", lst.id, "raised", 0) /\ EndRun("abort_sms")

SendSms_SaveOnRaise ==
  /\ pc = "sms"
  /\ UNCHANGED <<cfg, folders, runNo, locals, runInfo, emailTx, archiveMk>>
  /\ IF ~cfg.sms
     THEN /\ Log("sms", lst.id, "skipped", 0)
          /\ pc' = "archive"
          /\ UNCHANGED <<smsTx, lastExit, seenFile>>
     ELSE /\ smsTx' = [smsTx EXCEPT ![lst.id] = @ + 1]
          /\ \/ /\ Log("sms", lst.id, "sent", 0) /\ pc' = "archive"
                /\ UNCHANGED <<lastExit, seenFile>>
             \/ /\ Log("sms", lst.id, "raised", 0) /\ EndRun("abort_sms")
                /\ seenFile' = <<sorted(seen)>>

\* send_sms (lines 98-107) as called from main (line 165), outside any try.
SendSms ==
  /\ pc = "sms"
  /\ UNCHANGED <<cfg, disk, runNo, locals, runInfo, emailTx, archiveMk>>
  /\ IF ~cfg.sms
     THEN \* "SMS skipped (missing Twilio creds)"
          /\ Log("sms", lst.id, "skipped", 0)
          /\ pc' = "archive"
          /\ UNCHANGED <<smsTx, lastExit>>
     ELSE /\ smsTx' = [smsTx EXCEPT ![lst.id] = @ + 1]
          /\ \/ Log("sms", lst.id, "sent", 0) /\ pc' = "archive" /\ UNCHANGED lastExit
             \/ \* messages.create raises: nothing catches it, main ends
                Log("sms", lst.id, "raised", 0) /\ EndRun("abort_sms")

EmptyFolder == [page |-> <<>>, images |-> {}, meta |-> <<>>]

\* archive_listing, lines 115-118: the folder-exists check and mkdir.
ArchiveEntry_NoSkip ==
  /\ pc = "archive"
  /\ UNCHANGED <<cfg, seenFile, runNo, locals, runInfo, emailTx, smsTx, lastExit>>
  /\ folders' = (lst.id :> EmptyFolder) @@ folders
  /\ archiveMk' = [archiveMk EXCEPT ![lst.id] = @ + 1]
  /\ Log("mkdir", lst.id, "ok", 0)
  /\ pc' = "page"

ArchiveEntry_RetryIncomplete ==
  /\ pc = "archive"
  /\ UNCHANGED <<cfg, seenFile, runNo, locals, runInfo, emailTx, smsTx, lastExit>>
  /\ IF lst.id \in DOMAIN folders /\ folders[lst.id].meta # <<>>
     THEN /\ Log("archive", lst.id, "skipped", 0)
          /\ pc' = "mark"
          /\ UNCHANGED <<folders, archiveMk>>
     ELSE /\ folders' = (lst.id :> EmptyFolder) @@ folders
          /\ archiveMk' = [archiveMk EXCEPT ![lst.id] = @ + 1]
          /\ Log("mkdir", lst.id, "ok", 0)
          /\ pc' = "page"

ArchiveEntry ==
  /\ pc = "archive"
  /\ UNCHANGED <<cfg, seenFile, runNo, locals, runInfo, emailTx, smsTx, lastExit>>
  /\ IF lst.id \in DOMAIN folders
     THEN \* if folder.exists(): return
          /\ Log("archive", lst.id, "skipped", 0)
          /\ pc' = "mark"
          /\ UNCHANGED <<folders, archiveMk>>
     ELSE /\ folders' = (lst.id :> EmptyFolder) @@ folders
          /\ archiveMk' = [archiveMk EXCEPT ![lst.id] = @ + 1]
          /\ Log("mkdir", lst.id, "ok", 0)
          /\ pc' = "page"

\* img_urls = [src of every img whose src starts with "http"][:15]
AbsImgs(page) == SelectSeq(page, LAMBDA src : StartsWith(src, HTTP))
ImgUrls_NoCap(page) == AbsImgs(page)
ImgUrls(page) == SubSeq(AbsImgs(page), 1, Min(Len(AbsImgs(page)), IMG_CAP))

FetchPage_CleanupOnFail ==
  /\ pc = "page"
  /\ UNCHANGED <<cfg, seenFile, runNo, seen, new_listings, idx, runInfo, counts, lastExit>>
  /\ \/ /\ Log("page", lst.id, "raised", 0)
        /\ folders' = [i \in DOMAIN folders \ {lst.id} |-> folders[i]]
        /\ pc' = "mark"
        /\ UNCHANGED <<img_urls, imgIdx>>
     \/ \E page \in cfg.pages :
          /\ Log("page", lst.id, "ok", 0)
          /\ folders' = [folders EXCEPT ![lst.id].page = <<page>>]
          /\ img_urls' = ImgUrls(page)
          /\ imgIdx' = 1
          /\ pc' = IF ImgUrls(page) = <<>> THEN "meta" ELSE "img"

FetchPage_MetaFirst ==
  /\ pc = "page"
  /\ UNCHANGED <<cfg, seenFile, runNo, seen, new_listings, idx, runInfo, counts>>
  /\ \/ /\ Log("page", lst.id, "raised", 0)
        /\ EndRun("abort_archive")
        /\ UNCHANGED <<folders, img_urls, imgIdx>>
     \/ \E page \in cfg.pages :
          /\ Log("page", lst.id, "ok", 0)
          /\ folders' = [folders EXCEPT ![lst.id].page = <<page>>,
                                        ![lst.id].meta = <<[id |-> lst.id, url |-> lst.url,
                                                           title |-> lst.title, saved |-> runNo]>>]
          /\ img_urls' = ImgUrls(page)
          /\ imgIdx' = 1
          /\ pc' = IF ImgUrls(page) = <<>> THEN "meta" ELSE "img"
          /\ UNCHANGED lastExit

\* archive_listing, lines 121-127: fetch the listing page and save it.
FetchPage ==
  /\ pc = "page"
  /\ UNCHANGED <<cfg, seenFile, runNo, seen, new_listings, idx, runInfo, counts>>
  /\ \/ \* requests.get / raise_for_status raises: nothing catches it, main ends
        /\ Log("page", lst.id, "raised", 0)
        /\ EndRun("abort_archive")
        /\ UNCHANGED <<folders, img_urls, imgIdx>>
     \/ \E page \in cfg.pages :
          /\ Log("page", lst.id, "ok", 0)
          /\ folders' = [folders EXCEPT ![lst.id].page = <<page>>]
          /\ img_urls' = ImgUrls(page)
          /\ imgIdx' = 1
          /\ pc' = IF ImgUrls(page) = <<>> THEN "meta" ELSE "img"
          /\ UNCHANGED lastExit

\* archive_listing, lines 128-134: one iteration of the image loop.
FetchImage ==
  /\ pc = "img"
  /\ imgIdx <= Len(img_urls)
  /\ UNCHANGED <<cfg, seenFile, runNo, seen, new_listings, idx, img_urls, runInfo,
                 counts, lastExit>>
  /\ \/ /\ Log("img", lst.id, "ok", imgIdx)
        /\ folders' = [folders EXCEPT ![lst.id].images = @ \cup {imgIdx}]
     \/ \* except Exception: print("Image fetch error:", e)
        /\ Log("img", lst.id, "failed", imgIdx)
        /\ UNCHANGED folders
  /\ imgIdx' = imgIdx + 1
  /\ pc' = IF imgIdx = Len(img_urls) THEN "meta" ELSE "img"

\* archive_listing, lines 136-145: the metadata record.
WriteMeta ==
  /\ pc = "meta"
  /\ UNCHANGED <<cfg, seenFile, runNo, locals, runInfo, counts, lastExit>>
  /\ folders' = [folders EXCEPT ![lst.id].meta =
                   <<[id |-> lst.id, url |-> lst.url, title |-> lst.title, saved |-> runNo]>>]
  /\ Log("archive", lst.id, "done", 0)
  /\ pc' = "mark"

\* save_seen(seen): SEEN_PATH.write_text(json.dumps(sorted(seen)))
save_seen_OnlyNew(s) == <<sorted(s \ loaded)>>
save_seen(s) == <<sorted(s)>>

\* main, line 167 and the loop's advance: seen.add(lst["id"])
MarkSeen_Persist ==
  /\ pc = "mark"
  /\ UNCHANGED <<cfg, folders, runNo, new_listings, img_urls, imgIdx, runInfo, counts,
                 lastExit>>
  /\ seen' = seen \cup {lst.id}
  /\ seenFile' = save_seen(seen \cup {lst.id})
  /\ trace' = trace \o <<Ev("seen", lst.id, "ok", 0), Ev("save", NoId, "ok", 0)>>
  /\ IF idx < Len(new_listings)
     THEN idx' = idx + 1 /\ pc' = "email"
     ELSE idx' = idx /\ pc' = "save"

MarkSeen ==
  /\ pc = "mark"
  /\ UNCHANGED <<cfg, disk, runNo, new_listings, img_urls, imgIdx, runInfo, counts,
                 lastExit>>
  /\ seen' = seen \cup {lst.id}
  /\ Log("seen", lst.id, "ok", 0)
  /\ IF idx < Len(new_listings)
     THEN idx' = idx + 1 /\ pc' = "email"
     ELSE idx' = idx /\ pc' = "save"

\* main, lines 169-170: save_seen(seen) and the normal end of the run.
SaveSeen ==
  /\ pc = "save"
  /\ UNCHANGED <<cfg, folders, runNo, locals, runInfo, counts>>
  /\ seenFile' = save_seen(seen)
  /\ Log("save", NoId, "ok", 0)
  /\ EndRun("ok")

Next ==
  \/ Start
  \/ SendEmail
  \/ SendSms
  \/ ArchiveEntry
  \/ FetchPage
  \/ FetchImage
  \/ WriteMeta
  \/ MarkSeen
  \/ SaveSeen

Spec == Init /\ [][Next]_vars

\* The process is stopped from outside while archive_listing is between the
\* folder creation (line 118) and the metadata write (line 143).
Kill ==
  /\ pc \in {"page", "img", "meta"}
  /\ Log("kill", lst.id, "killed", 0)
  /\ EndRun("killed")
  /\ UNCHANGED <<cfg, disk, runNo, locals, runInfo, counts>>

NextKill == Next \/ Kill

\* The notification settings play no part in what happens to a folder: the
\* runs with a kill are explored for one setting, SMS only.
InitKill == Init /\ cfg.search /\ ~cfg.email /\ cfg.sms

SpecKill == InitKill /\ [][NextKill]_vars

\* ------------------------------------------- fetch_listings on its own
\* Every results page of at most MaxAnchors anchors, then one call of
\* fetch_listings on it.
AllDocuments == UNION {[1..n -> Anchors] : n \in 0..MaxAnchors}

InitCollect ==
  /\ cfg = [search |-> TRUE, email |-> FALSE, sms |-> FALSE, pages |-> Pages]
  /\ seenFile = <<>>
  /\ folders = <<>>
  /\ runNo = 0
  /\ pc = "collect"
  /\ seen = {}
  /\ new_listings = <<>>
  /\ idx = 0
  /\ img_urls = <<>>
  /\ imgIdx = 0
  /\ lastExit = "none"
  /\ searchRes \in {<<d>> : d \in AllDocuments}
  /\ prevSearchRes = <<>>
  /\ collected = <<>>
  /\ loaded = {}
  /\ fileAtStart = <<>>
  /\ foldersAtStart = <<>>
  /\ prevExit = "none"
  /\ prevNew = <<>>
  /\ prevTx = {}
  /\ trace = <<>>
  /\ emailTx = [i \in Ids |-> 0]
  /\ smsTx = [i \in Ids |-> 0]
  /\ archiveMk = [i \in Ids |-> 0]

Collect ==
  /\ pc = "collect"
  /\ collected' = fetch_listings(searchRes[1])
  /\ pc' = "collected"
  /\ UNCHANGED <<cfg, disk, runNo, locals, lastExit, searchRes, prevSearchRes, loaded,
                 fileAtStart, foldersAtStart, prevExit, prevNew, prevTx, trace, counts>>

NextCollect == Collect

SpecCollect == InitCollect /\ [][NextCollect]_vars

\* ------------------------------------------- archive_listing on its own
\* One call of archive_listing for listing A, whose page carries one relative
\* image followed by n absolute ones with pairwise different addresses.
AbsSrc(i) == HTTP \o <<":">> \o [k \in 1..i |-> "a"]
MkPage(n) == <<relImg>> \o [i \in 1..n |-> AbsSrc(i)]
PageSizes == (0..MaxPageImgs) \cup {2 * IMG_CAP}
listingA == [id |-> idA, url |-> Origin \o aA.href, title |-> "A"]

InitArchive ==
  /\ \E n \in PageSizes :
       cfg = [search |-> TRUE, email |-> FALSE, sms |-> FALSE, pages |-> {MkPage(n)}]
  /\ seenFile = <<>>
  /\ folders \in {<<>>, idA :> EmptyFolder}
  /\ runNo = 1
  /\ pc = "archive"
  /\ seen = {}
  /\ new_listings = <<listingA>>
  /\ idx = 1
  /\ img_urls = <<>>
  /\ imgIdx = 0
  /\ lastExit = "running"
  /\ searchRes = << <<aA>> >>
  /\ prevSearchRes = <<>>
  /\ collected = <<listingA>>
  /\ loaded = {}
  /\ fileAtStart = <<>>
  /\ foldersAtStart = folders
  /\ prevExit = "none"
  /\ prevNew = <<>>
  /\ prevTx = {}
  /\ trace = <<Ev("email", idA, "skipped", 0), Ev("sms", idA, "skipped", 0)>>
  /\ emailTx = [i \in Ids |-> 0]
  /\ smsTx = [i \in Ids |-> 0]
  /\ archiveMk = [i \in Ids |-> 0]

NextArchive ==
  \/ ArchiveEntry
  \/ FetchPage
  \/ FetchImage
  \/ WriteMeta

SpecArchive == InitArchive /\ [][NextArchive]_vars

TypeOK ==
  /\ pc \in {"idle", "email", "sms", "archive", "page", "img", "meta", "mark", "save",
            "collect", "collected"}
  /\ runNo \in 0..MaxRuns
  /\ seen \subseteq Ids
  /\ DOMAIN folders \subseteq Ids

\* ------------------------------------------------------------ vocabulary
Pos == 1..Len(trace)
IdsOf(q) == {q[i].id : i \in 1..Len(q)}
Ended == pc = "idle" /\ runNo >= 1
\* a notification that reached its transport
IsTx(e) == e.ev \in {"email", "sms"} /\ e.res # "skipped"
\* an effect of archive_listing on the network or on the folder
IsArchiveWork(e) == e.ev \in {"mkdir", "page", "img"} \/ (e.ev = "archive" /\ e.res = "done")
Saves == {k \in Pos : trace[k].ev = "save"}
Sorted(q) == \A i, j \in 1..Len(q) : i < j => StrLess(q[i], q[j])

\* C1: over all runs every identifier gets at most one email transport
\* attempt, at most one SMS transport attempt and at most one archive.
C1_AtMostOncePerId ==
  \A i \in Ids : emailTx[i] <= 1 /\ smsTx[i] <= 1 /\ archiveMk[i] <= 1

\* C2: a run whose search result is the one of the run just before it sends
\* no notification, writes no archive and leaves the seen-set file as it was.
C2_SecondRunQuiet ==
  (runNo >= 2 /\ searchRes # <<>> /\ searchRes = prevSearchRes) =>
     /\ \A k \in Pos : ~IsTx(trace[k]) /\ ~IsArchiveWork(trace[k])
     /\ folders = foldersAtStart
     /\ seenFile = fileAtStart

\* C3: the seen-set file always holds every identifier the run loaded, and no
\* step removes an identifier from the file or from the in-memory set of a run.
C3_SeenMonotone ==
  /\ [](loaded \subseteq load_seen(seenFile))
  /\ [][/\ load_seen(seenFile) \subseteq load_seen(seenFile')
        /\ (pc # "idle" => seen \subseteq seen')
        /\ (pc' # "idle" => loaded' \subseteq seen')]_vars

C3_Witness ==
  /\ Ended /\ lastExit = "ok"
  /\ loaded # {}
  /\ loaded # load_seen(seenFile)

\* C4: after a failed fetch of a listing's page the run goes on: every new
\* listing of the batch is notified and archived and the seen set is saved.
C4_PageFailureIsLocal ==
  (Ended /\ \E k \in Pos : trace[k].ev = "page" /\ trace[k].res = "raised") =>
     /\ \A l \in Range(new_listings) :
          /\ \E k \in Pos : trace[k].ev = "sms" /\ trace[k].id = l.id
          /\ \E k \in Pos : trace[k].ev \in {"archive", "mkdir"} /\ trace[k].id = l.id
     /\ Saves # {}

\* C5: after an SMS transport failure the run goes on: that listing is
\* archived, every new listing of the batch is processed, the seen set is saved.
C5_SmsFailureIsLocal ==
  (Ended /\ \E k \in Pos : trace[k].ev = "sms" /\ trace[k].res = "raised") =>
     /\ \A l \in Range(new_listings) :
          \E k \in Pos : trace[k].ev \in {"archive", "mkdir"} /\ trace[k].id = l.id
     /\ Saves # {}

C7_ExistingFolderUntouched ==
  [][(pc = "archive" /\ lst.id \in DOMAIN folders) =>
       /\ folders' = folders
       /\ trace' = Append(trace, Ev("archive", lst.id, "skipped", 0))
       /\ pc' = "mark"]_vars

C7_Witness ==
  /\ pc = "mark"
  /\ trace[Len(trace)] = Ev("archive", lst.id, "skipped", 0)
  /\ folders[lst.id].meta = <<>>

\* C8: a run whose collected listings are all in the loaded seen set ends
\* successfully without any notification, archive work or file write.
C8_NoNewNoEffects ==
  (runNo >= 1 /\ searchRes # <<>> /\ IdsOf(collected) \subseteq loaded) =>
     /\ pc = "idle" /\ lastExit = "no_new"
     /\ trace = <<>>
     /\ seenFile = fileAtStart
     /\ folders = foldersAtStart

C8_Witness ==
  /\ Ended /\ lastExit = "no_new"
  /\ collected # <<>>
  /\ seenFile # <<>>

\* C9: a completed run with new listings saves the seen set exactly once, as
\* its last effect, after every new listing was marked seen; until then the
\* seen-set file is the one found at run start.
C9_PersistOnceAtEnd ==
  /\ (Ended /\ lastExit = "ok") =>
        /\ Saves = {Len(trace)}
        /\ \A l \in Range(new_listings) :
             \E k \in Pos : k < Len(trace) /\ trace[k].ev = "seen" /\ trace[k].id = l.id
        /\ trace[Len(trace) - 1] = Ev("seen", new_listings[Len(new_listings)].id, "ok", 0)
  /\ pc # "idle" => Saves = {} /\ seenFile = fileAtStart
  /\ Cardinality(Saves) <= 1

C9_Witness ==
  /\ Ended /\ lastExit = "ok"
  /\ Len(new_listings) >= 2
  /\ seenFile # fileAtStart

\* C10: after a run that completes normally the seen-set file holds exactly
\* the loaded identifiers and the collected ones, as a strictly ascending
\* list, and every new listing of the run has an archive folder; a first run
\* that finds two listings leaves both identifiers in the file and two folders.
C10_FileAfterRun ==
  /\ (Ended /\ lastExit \in {"ok", "no_new"}) =>
        /\ load_seen(seenFile) = loaded \cup IdsOf(collected)
        /\ seenFile # <<>> => Sorted(seenFile[1])
        /\ lastExit = "ok" => seenFile # <<>>
        /\ IdsOf(new_listings) \subseteq DOMAIN folders
  /\ (runNo = 1 /\ Ended /\ lastExit = "ok" /\ searchRes = << <<aA, aB>> >>) =>
        seenFile = << <<idA, idB>> >> /\ DOMAIN folders = {idA, idB}

C10_Witness ==
  /\ Ended /\ lastExit = "ok"
  /\ loaded = {idA, idB}
  /\ seenFile = << <<idC, idA, idB>> >>
  /\ DOMAIN folders = {idA, idB, idC}

\* ----------------------------------------------------------- C11 .. C20
theDoc == searchRes[1]
\* the anchor at position i matches the selector and yields an identifier
Yields(i) == Contains(theDoc[i].href, CARD_HREF) /\ HasId(urljoin(theDoc[i].href))
IdAt(i) == ExtractId(urljoin(theDoc[i].href))
\* position i is the first anchor of the page with its identifier
IsFirst(i) == Yields(i) /\ \A j \in 1..(i - 1) : Yields(j) => IdAt(j) # IdAt(i)
Firsts == {i \in 1..Len(theDoc) : IsFirst(i)}

\* C11: fetch_listings returns one listing per distinct identifier of the
\* matching anchors, with the url and title of the first anchor that carries
\* the identifier, in the order of those first anchors; anchors without an
\* identifier contribute nothing.
C11_OnePerIdFirstWins ==
  pc = "collected" =>
    /\ Len(collected) = Cardinality({IdAt(i) : i \in {j \in 1..Len(theDoc) : Yields(j)}})
    /\ Len(collected) = Cardinality(Firsts)
    /\ \A i \in Firsts :
         LET k == Cardinality({j \in Firsts : j <= i})
         IN /\ collected[k].id = IdAt(i)
            /\ collected[k].url = urljoin(theDoc[i].href)
            /\ collected[k].title =
                 (IF theDoc[i].text = "" THEN DEFAULT_TITLE ELSE theDoc[i].text)

C11_Witness ==
  /\ pc = "collected"
  /\ theDoc = <<aA, aShort, aAdup>>
  /\ collected = <<[id |-> idA, url |-> Origin \o aA.href, title |-> "A"]>>

ImgEvents == {k \in Pos : trace[k].ev = "img"}

\* C12: of the n absolute images of the page only the first min(n, 15) are
\* attempted, in document order; the i-th one, when fetched, is written as
\* image i; at most 15 files are written, exactly 15 for a page with 30 images
\* that are all fetched; a failed image stops neither the later images nor the
\* metadata write.
C12_ImageCap ==
  (pc \in {"img", "meta", "mark"} /\ folders[lst.id].page # <<>>) =>
    LET page == folders[lst.id].page[1]
        n    == Len(page) - 1
        m    == IF n <= 15 THEN n ELSE 15
    IN /\ Len(img_urls) = m
       /\ \A i \in 1..m : img_urls[i] = page[i + 1]
       /\ \A k \in ImgEvents :
            /\ trace[k].n = Cardinality({j \in ImgEvents : j <= k})
            /\ trace[k].n <= m
       /\ folders[lst.id].images = {trace[k].n : k \in {j \in ImgEvents : trace[j].res = "ok"}}
       /\ Cardinality(folders[lst.id].images) <= 15
       /\ pc \in {"meta", "mark"} => Cardinality(ImgEvents) = m
       /\ pc = "mark" => folders[lst.id].meta # <<>>
       /\ (pc = "mark" /\ n = 30 /\ \A k \in ImgEvents : trace[k].res = "ok") =>
            folders[lst.id].images = 1..15

C12_Witness ==
  /\ pc = "mark"
  /\ folders[idA].page = <<MkPage(30)>>
  /\ folders[idA].images = (1..15) \ {3}
  /\ folders[idA].meta # <<>>

InArchiveOf(i) == pc \in {"archive", "page", "img", "meta", "mark"} /\ lst.id = i

EmailEvents == {k \in Pos : trace[k].ev = "email"}
SeenEvents == {k \in Pos : trace[k].ev = "seen"}

\* C14: the listings are processed in collector order; for each one the email
\* attempt, the SMS attempt, the archive step and the addition to the seen set
\* happen in this order; an identifier is in the in-memory seen set only if it
\* was loaded or its archive step returned normally after both attempts; the
\* next listing starts right after the previous one was marked seen.
C14_StepOrder ==
  /\ \A k \in EmailEvents :
       LET j == Cardinality({e \in EmailEvents : e <= k})
       IN /\ j <= Len(new_listings) /\ trace[k].id = new_listings[j].id
          /\ j = 1 => k = 1
          /\ j > 1 => trace[k - 1] = Ev("seen", new_listings[j - 1].id, "ok", 0)
  /\ \A k \in SeenEvents :
       \E e \in EmailEvents :
          /\ e + 2 < k
          /\ trace[e].id = trace[k].id
          /\ trace[e + 1].ev = "sms" /\ trace[e + 1].id = trace[k].id
          /\ trace[e + 1].res # "raised"
          /\ \A a \in (e + 2)..(k - 1) : IsArchiveWork(trace[a]) \/ trace[a].ev = "archive"
          /\ \A a \in (e + 2)..(k - 1) : trace[a].id = trace[k].id
          /\ trace[k - 1].ev = "archive" /\ trace[k - 1].res \in {"done", "skipped"}
  /\ runNo >= 1 => seen = loaded \cup {trace[k].id : k \in SeenEvents}

C14_Witness ==
  /\ Ended /\ lastExit = "ok"
  /\ Len(new_listings) = 2
  /\ Cardinality(SeenEvents) = 2
  /\ \E k \in Pos : trace[k].ev = "img"

Aborts == {"abort_sms", "abort_archive"}
\* the run repeats the search result of an aborted run
AfterAbort ==
  runNo >= 2 /\ prevExit \in Aborts /\ searchRes # <<>> /\ searchRes = prevSearchRes
\* what an aborted run leaves behind
AbortLeaves ==
  (Ended /\ lastExit \in Aborts) =>
     /\ seenFile = fileAtStart
     /\ \A j \in (idx + 1)..Len(new_listings) :
          \A k \in Pos : trace[k].id # new_listings[j].id

C16_IncompleteStaysIncomplete ==
  \A i \in DOMAIN foldersAtStart :
     foldersAtStart[i].meta = <<>> =>
        /\ i \in DOMAIN folders /\ folders[i] = foldersAtStart[i]
        /\ \A k \in Pos : trace[k].id = i => ~IsArchiveWork(trace[k]) /\ trace[k].ev # "kill"

C16_Witness ==
  /\ runNo >= 2 /\ Ended /\ lastExit = "ok"
  /\ idA \in DOMAIN foldersAtStart
  /\ foldersAtStart[idA].page # <<>>
  /\ foldersAtStart[idA].meta = <<>>
  /\ \E k \in Pos : trace[k] = Ev("archive", idA, "skipped", 0)
  /\ idA \in load_seen(seenFile)

\* C17: nothing a run does (email, SMS, archive_listing, marking) concerns an
\* identifier that was in the seen-set file when the run loaded it.
C17_SeenNeverReprocessed ==
  \A k \in Pos : trace[k].ev # "save" => trace[k].id \notin loaded

C17_Witness ==
  /\ Ended /\ lastExit = "ok"
  /\ IdsOf(collected) \cap loaded # {}
  /\ IdsOf(collected) \ loaded # {}
  /\ \E k \in Pos : IsTx(trace[k])
  /\ \E k \in Pos : trace[k].ev = "mkdir"

ArchiveCalls(i) ==
  {k \in Pos : trace[k].id = i /\ (trace[k].ev = "mkdir"
                                    \/ (trace[k].ev = "archive" /\ trace[k].res = "skipped"))}

\* C18: within one run an identifier has at most one email attempt, at most
\* one SMS attempt and at most one call of archive_listing.
C18_OncePerRun ==
  \A i \in Ids :
     /\ Cardinality({k \in Pos : trace[k].ev = "email" /\ trace[k].id = i}) <= 1
     /\ Cardinality({k \in Pos : trace[k].ev = "sms" /\ trace[k].id = i}) <= 1
     /\ Cardinality(ArchiveCalls(i)) <= 1

C18_Witness ==
  /\ Ended /\ lastExit = "ok"
  /\ searchRes = << <<aA, aAdup, aShort, aB>> >>
  /\ \E k \in Pos : trace[k] = Ev("email", idA, "sent", 0)
  /\ \E k \in Pos : trace[k] = Ev("sms", idA, "sent", 0)
  /\ ArchiveCalls(idA) # {}

\* C19: an identifier that the run added to its seen set, and so every
\* identifier the run adds to the seen-set file, has an archive folder.
C19_SeenImpliesFolder ==
  /\ runNo >= 1 => (seen \ loaded) \subseteq DOMAIN folders
  /\ (load_seen(seenFile) \ load_seen(fileAtStart)) \subseteq DOMAIN folders

\* ... and that folder may be an incomplete one, without a metadata record.
C19_Witness ==
  /\ Ended /\ lastExit = "ok"
  /\ \E i \in load_seen(seenFile) \ load_seen(fileAtStart) :
       folders[i].meta = <<>> /\ \E k \in Pos : trace[k] = Ev("archive", i, "skipped", 0)

\* C20: a folder that holds a metadata record also holds the page, and nothing
\* in such a folder is written afterwards.
C20_MetadataLast ==
  /\ [](\A i \in DOMAIN folders : folders[i].meta # <<>> => folders[i].page # <<>>)
  /\ [][\A i \in DOMAIN folders :
          folders[i].meta # <<>> => (i \in DOMAIN folders' /\ folders'[i] = folders[i])]_vars

C20_Witness ==
  \E i \in DOMAIN folders :
     /\ folders[i].meta # <<>>
     /\ folders[i].images = {1, 2}
     /\ pc = "mark" /\ lst.id = i
====
